---------------------------- MODULE Spec2Model ----------------------------
(***************************************************************************)
(* FreeFlow client core: the Conversation Client (useBrainSession), the    *)
(* KDS Polling Engine (useKDSPolling + kdsApi), the TTS Playback           *)
(* Controller (TTSManager) and the Cart Store (CartProvider).               *)
(*                                                                         *)
(* Each component is a state machine of its own (SpecBrain, SpecKDS,       *)
(* SpecTTS, SpecCart): the components share no state in the source.        *)
(* Variables whose name starts with g_ are history variables: they record  *)
(* what was called and answered and are read by no action guard.           *)
(***************************************************************************)
EXTENDS Integers, Sequences, FiniteSets, TLC

(***************************************************************************)
(* Bounds of the model.                                                    *)
(***************************************************************************)
MaxRequests == 2      \* sendMessage calls that reach the network
MaxSessions == 3      \* session ids minted (by the backend or locally)
MaxFetches == 2       \* fetchData calls of the Polling Engine
MaxActions == 1       \* KDS dispatcher calls
MaxPlays == 1         \* playChunked calls
MaxChunks == 3        \* chunks of one playChunked call
MaxSpeaks == 1        \* utterances of speak calls awaiting their event at once
MaxAudios == 1        \* audio elements handed to registerAudio
MaxCartOps == 3       \* calls of the cart's operations
MaxSubmits == 2       \* submitOrder calls

VARIABLES
    \* ---- useBrainSession ----
    sessionId,            \* useState sessionId
    storedSessionId,      \* localStorage["amber-session-id"]
    conversationHistory,  \* useState conversationHistory
    lastMessageRef,       \* useRef: the one-slot dedupe
    isThinking,           \* useState isThinking
    lastResponse,         \* useState lastResponse
    lastFullResponse,     \* useState lastFullResponse
    error,                \* useState error
    inFlight,             \* requests awaiting callBrainV2's answer
    requests,             \* every request sent to /api/brain/v2, in order
    nextSid,              \* next fresh session id
    g_lastStep,           \* the operation that has just finished
    g_rotatedTo,          \* newSessionId of the latest rotation signal
    g_prevSent,           \* trimmed text of the latest message sent
    g_clearedSince,       \* dedupe slot cleared since g_prevSent was sent
    \* ---- useKDSPolling ----
    enabled,              \* option `enabled`
    mounted,              \* "no" before the effects ran, "yes", "gone" after unmount
    orders,               \* useState orders
    stats,                \* useState stats
    isLoading,            \* useState isLoading
    kdsError,             \* useState error
    lastUpdated,          \* useState lastUpdated (0: null)
    isPolling,            \* useState isPolling
    pollIntervalRef,      \* useRef: the interval timer's id (0: null)
    abortControllerRef,   \* useRef: the AbortController (0: null)
    liveTimers,           \* interval timers set and not cleared
    fetches,              \* GET /api/admin/orders requests in flight
    nFetch,               \* fetchData calls so far
    backend,              \* the backend's order and the mutations it applied
    calls,                \* the dispatcher calls, in order
    g_aborted,            \* controllers on which abort() was called
    g_ordersSeen,         \* dispatcher calls whose mutation `orders` reflects
    g_settled,            \* fetches whose promise has settled
    \* ---- TTSManager ----
    utterance,            \* this.utterance
    currentAudio,         \* this.currentAudio (0: null)
    currentController,    \* this.currentController: "null" or "set"
    chunkQueue,           \* this.chunkQueue
    isPlaying,            \* this.isPlaying
    synth,                \* window.speechSynthesis: utterances speaking and pending
    cancelled,            \* cancelled utterances whose event is still to come
    loops,                \* the playChunked calls, in order
    audios,               \* the audio elements that are playing
    g_spoken,             \* chunks handed to speechSynthesis.speak, in order
    g_stopAt,             \* chunks of each call spoken when stop() was called
    \* ---- CartProvider ----
    cart,                 \* the cart state of the latest render
    restaurant,           \* the restaurant state of the latest render
    pendingCart,          \* setCart value awaiting the next render, if any
    pendingRestaurant,    \* setRestaurant value awaiting the next render, if any
    lsCart,               \* localStorage freeflow_cart (<<>>: removed)
    lsRestaurant,         \* localStorage freeflow_cart_restaurant (<<>>: removed)
    g_cartOps,            \* calls of cart operations so far
    g_onlyAdds,           \* every call so far was an addToCart
    g_adds,               \* the addToCart calls so far: item, restaurant, quantity
    cartMounted,          \* the CartProvider is mounted
    g_remount,            \* what the last unmount left, what the last mount found
    isOpen,               \* the cart UI is open
    isSubmitting,         \* CartProvider.isSubmitting
    submits,              \* the submitOrder calls, in order
    g_requests,           \* requests sent by submitOrder calls so far
    \* ---- deriveUIHints ----
    uiResponse,           \* the argument of the latest deriveUIHints call
    uiHints,              \* what that call returned
    \* ---- Home ----
    home                  \* Home's voice transcript and its transcript effect

brainVars == << sessionId, storedSessionId, conversationHistory, lastMessageRef,
                isThinking, lastResponse, lastFullResponse, error, inFlight,
                requests, nextSid, g_lastStep, g_rotatedTo, g_prevSent,
                g_clearedSince >>

kdsVars == << enabled, mounted, orders, stats, isLoading, kdsError, lastUpdated,
              isPolling, pollIntervalRef, abortControllerRef, liveTimers, fetches,
              nFetch, backend, calls, g_aborted, g_ordersSeen, g_settled >>

ttsVars == << utterance, currentAudio, currentController, chunkQueue, isPlaying,
              synth, cancelled, loops, audios, g_spoken,
              g_stopAt >>

cartVars == << cart, restaurant, pendingCart, pendingRestaurant, lsCart,
               lsRestaurant, g_cartOps, g_onlyAdds, g_adds, cartMounted, isOpen,
               isSubmitting, submits, g_requests, g_remount >>

hintsVars == << uiResponse, uiHints >>

homeVars == << home >>

vars == << brainVars, kdsVars, ttsVars, cartVars, hintsVars, homeVars >>

(***************************************************************************)
(*                       Conversation Client                               *)
(***************************************************************************)
NoSession == 0
NoResponse == [ok |-> FALSE]
GenericError == "Przepraszam, mam problem z polaczeniem."

\* Texts are sequences of characters; " " is whitespace.
Texts == { <<>>, <<" ">>, <<"a">>, <<" ", "a">>, <<"a", " ">>, <<"b">> }

RECURSIVE TrimStart(_)
TrimStart(s) == IF s # <<>> /\ Head(s) = " " THEN TrimStart(Tail(s)) ELSE s

RECURSIVE TrimEnd(_)
TrimEnd(s) ==
    IF s # <<>> /\ s[Len(s)] = " " THEN TrimEnd(SubSeq(s, 1, Len(s) - 1)) ELSE s

\* String.prototype.trim
Trim(s) == TrimEnd(TrimStart(s))

\* The answers POST /api/brain/v2 can give to a request, `fresh` being the
\* session id the backend would open next.
BrainResponses(fresh) ==
    { [ok |-> TRUE, reply |-> "r", conversationClosed |-> c, newSessionId |-> n] :
        c \in BOOLEAN, n \in {NoSession, fresh} }

\* The session the response asks the client to switch to, if any.
RotationOf(response) ==
    IF response.conversationClosed /\ response.newSessionId # NoSession
    THEN response.newSessionId ELSE NoSession

BrainInit ==
    /\ sessionId = 1
    /\ storedSessionId = 1
    /\ conversationHistory = <<>>
    /\ lastMessageRef = <<>>
    /\ isThinking = FALSE
    /\ lastResponse = ""
    /\ lastFullResponse = NoResponse
    /\ error = ""
    /\ inFlight = {}
    /\ requests = <<>>
    /\ nextSid = 2
    /\ g_lastStep = [op |-> "init"]
    /\ g_rotatedTo = NoSession
    /\ g_prevSent = <<>>
    /\ g_clearedSince = FALSE

\* callBrainV2: one POST carrying the session id and the text.
callBrainV2(sid, text) ==
    /\ requests' = Append(requests, [sid |-> sid, text |-> text])
    /\ inFlight' = inFlight \cup {[rid |-> Len(requests) + 1, sid |-> sid, text |-> text]}

\* The dedupe check of sendMessage: TRUE when the call is dropped.
DedupeSkip_NoTrimCompare(text, trimmed) == trimmed = <<>> \/ text = lastMessageRef
DedupeSkip(text, trimmed) == trimmed = <<>> \/ trimmed = lastMessageRef

\* sendMessage, up to the await of callBrainV2.
sendMessage(text) ==
    LET trimmed == Trim(text) IN
    IF DedupeSkip(text, trimmed)
    THEN /\ g_lastStep' = [op |-> "skip", text |-> text, ret |-> "null"]
         /\ UNCHANGED << sessionId, storedSessionId, conversationHistory,
                         lastMessageRef, isThinking, lastResponse,
                         lastFullResponse, error, inFlight, requests, nextSid,
                         g_rotatedTo, g_prevSent, g_clearedSince >>
    ELSE /\ Len(requests) < MaxRequests
         /\ lastMessageRef' = trimmed
         /\ isThinking' = TRUE
         /\ error' = ""
         /\ lastResponse' = ""
         /\ lastFullResponse' = NoResponse
         /\ callBrainV2(sessionId, trimmed)
         /\ g_lastStep' = [op |-> "send", text |-> text, ret |-> "pending"]
         /\ g_prevSent' = trimmed
         /\ g_clearedSince' = FALSE
         /\ UNCHANGED << sessionId, storedSessionId, conversationHistory,
                         nextSid, g_rotatedTo >>

\* handleConversationClosed, applied to the history `hist` that sendMessage
\* has just queued.
handleConversationClosed_NoPersist(response, hist) ==
    IF response.conversationClosed /\ response.newSessionId # NoSession
    THEN /\ sessionId' = response.newSessionId
         /\ conversationHistory' = <<>>
         /\ lastMessageRef' = <<>>
         /\ UNCHANGED storedSessionId
    ELSE /\ conversationHistory' = hist
         /\ UNCHANGED << sessionId, storedSessionId, lastMessageRef >>

handleConversationClosed(response, hist) ==
    IF response.conversationClosed /\ response.newSessionId # NoSession
    THEN /\ sessionId' = response.newSessionId
         /\ storedSessionId' = response.newSessionId
         /\ conversationHistory' = <<>>
         /\ lastMessageRef' = <<>>
    ELSE /\ conversationHistory' = hist
         /\ UNCHANGED << sessionId, storedSessionId, lastMessageRef >>

\* sendMessage after the await, the request answered with a 2xx response.
sendMessageResolved(req, response) ==
    LET amberReply == response.reply
        hist == conversationHistory \o
                  << [role |-> "user", content |-> req.text],
                     [role |-> "assistant", content |-> amberReply] >>
    IN  /\ inFlight' = inFlight \ {req}
        /\ lastResponse' = amberReply
        /\ lastFullResponse' = response
        /\ IF response.conversationClosed
           THEN handleConversationClosed(response, hist)
           ELSE /\ conversationHistory' = hist
                /\ UNCHANGED << sessionId, storedSessionId, lastMessageRef >>
        /\ isThinking' = FALSE
        /\ nextSid' = IF response.newSessionId # NoSession THEN nextSid + 1 ELSE nextSid
        /\ g_lastStep' = [op |-> "ok", rid |-> req.rid, ret |-> "response",
                          rotated |-> RotationOf(response)]
        /\ g_rotatedTo' = IF RotationOf(response) # NoSession
                          THEN RotationOf(response) ELSE g_rotatedTo
        /\ g_clearedSince' = (g_clearedSince \/ RotationOf(response) # NoSession)
        /\ UNCHANGED << error, requests, g_prevSent >>

\* sendMessage whose catch keeps the user's turn in the history.
sendMessageRejected_KeepsUserTurn(req) ==
    /\ inFlight' = inFlight \ {req}
    /\ error' = GenericError
    /\ lastResponse' = ""
    /\ isThinking' = FALSE
    /\ conversationHistory' =
          Append(conversationHistory, [role |-> "user", content |-> req.text])
    /\ g_lastStep' = [op |-> "fail", rid |-> req.rid, ret |-> "null"]
    /\ UNCHANGED << sessionId, storedSessionId,
                    lastMessageRef, lastFullResponse, requests, nextSid,
                    g_rotatedTo, g_prevSent, g_clearedSince >>

\* sendMessage after the await, fetch rejected or the status not 2xx.
sendMessageRejected(req) ==
    /\ inFlight' = inFlight \ {req}
    /\ error' = GenericError
    /\ lastResponse' = ""
    /\ isThinking' = FALSE
    /\ g_lastStep' = [op |-> "fail", rid |-> req.rid, ret |-> "null"]
    /\ UNCHANGED << sessionId, storedSessionId, conversationHistory,
                    lastMessageRef, lastFullResponse, requests, nextSid,
                    g_rotatedTo, g_prevSent, g_clearedSince >>

clearHistory ==
    /\ conversationHistory' = <<>>
    /\ lastMessageRef' = <<>>
    /\ lastFullResponse' = NoResponse

startNewConversation ==
    /\ nextSid <= MaxSessions
    /\ sessionId' = nextSid
    /\ storedSessionId' = nextSid
    /\ nextSid' = nextSid + 1
    /\ clearHistory
    /\ g_lastStep' = [op |-> "new"]
    /\ g_rotatedTo' = NoSession
    /\ g_clearedSince' = TRUE
    /\ UNCHANGED << isThinking, lastResponse, error, inFlight, requests, g_prevSent >>

ClearHistoryCall ==
    /\ clearHistory
    /\ g_lastStep' = [op |-> "clear"]
    /\ g_clearedSince' = TRUE
    /\ UNCHANGED << sessionId, storedSessionId, isThinking, lastResponse, error,
                    inFlight, requests, nextSid, g_rotatedTo, g_prevSent >>

SendMessageCall == \E text \in Texts : sendMessage(text)

BrainAnswers ==
    \E req \in inFlight :
        \E response \in BrainResponses(nextSid) :
            /\ response.newSessionId # NoSession => nextSid <= MaxSessions
            /\ sendMessageResolved(req, response)

BrainFails == \E req \in inFlight : sendMessageRejected(req)

(***************************************************************************)
(*             Home: the voice transcript and its effect                   *)
(***************************************************************************)
\* `transcript` is the transcript useVoiceInput holds once recognition has
\* ended (isListening false); `deps` is the sessionId of the render whose
\* sendMessage (and so handleTextSubmit) the transcript effect last ran
\* with; `sends` counts the requests issued for this transcript.
HomeInit == home = [transcript |-> <<>>, deps |-> 1, sends |-> 0]

\* The requests a sendMessage(text) adds.
Sent(text) == IF DedupeSkip(text, Trim(text)) THEN 0 ELSE 1

\* Recognition ends with a transcript: Home renders with isListening false
\* and the transcript set, its effect calls handleTextSubmit(transcript),
\* which calls sendMessage.
TranscriptFinalized ==
    \E t \in Texts \ {<<>>} :
        /\ sendMessage(t)
        /\ home' = [transcript |-> t, deps |-> sessionId, sends |-> Sent(t)]

\* Home renders with a new sessionId: sendMessage is a new function
\* (useCallback on sessionId), so is handleTextSubmit, and the transcript
\* effect runs again with the transcript still there.
TranscriptEffectReruns ==
    /\ home.transcript # <<>>
    /\ home.deps # sessionId
    /\ sendMessage(home.transcript)
    /\ home' = [home EXCEPT !.deps = sessionId,
                            !.sends = @ + Sent(home.transcript)]





(***************************************************************************)
(* Claims about the Conversation Client.                                   *)
(***************************************************************************)
\* A step in which sendMessage put a request on the wire.
RequestIssued == Len(requests') = Len(requests) + 1

\* A step that is a call of sendMessage (sent or dropped).
SendMessageCalled ==
    /\ g_lastStep'.op \in {"send", "skip"}
    /\ (g_lastStep' # g_lastStep \/ RequestIssued)

\* C1: session rotation. When a sendMessage has returned a response with
\* conversationClosed=true and newSessionId=S2, sessionId is S2 in memory and
\* in localStorage, conversationHistory is empty and the dedupe slot is
\* empty; and every request sent after that rotation (until a manual
\* startNewConversation or a further rotation replaces the session) carries
\* session_id=S2.
C1_RotatedAtReturn ==
    (g_lastStep.op = "ok" /\ g_lastStep.rotated # NoSession) =>
        /\ sessionId = g_lastStep.rotated
        /\ storedSessionId = g_lastStep.rotated
        /\ conversationHistory = <<>>
        /\ lastMessageRef = <<>>

C1_LaterRequestsCarryNewId ==
    (RequestIssued /\ g_rotatedTo # NoSession) =>
        requests'[Len(requests')].sid = g_rotatedTo

C1_SessionRotation == [] C1_RotatedAtReturn /\ [][C1_LaterRequestsCarryNewId]_vars

\* C1 witness: a request has been sent under the session id of a rotation.
C1_Witness ==
    /\ g_rotatedTo # NoSession
    /\ g_lastStep.op = "send"
    /\ requests[Len(requests)].sid = g_rotatedTo
    /\ Len(requests) >= 2
    /\ requests[1].sid # g_rotatedTo

\* C2 as stated: a sendMessage whose trimmed text is empty or equals the
\* trimmed text of the immediately preceding sent message issues no request
\* and returns null.
C2_Original ==
    [][ (SendMessageCalled /\
           (Trim(g_lastStep'.text) = <<>> \/ Trim(g_lastStep'.text) = g_prevSent))
        => (~RequestIssued /\ g_lastStep'.ret = "null") ]_vars

\* C2 as amended: the same, provided the dedupe slot has not been cleared
\* (session rotation, clearHistory, startNewConversation) since that message
\* was sent.
C2_OneSlotDedupe ==
    [][ (SendMessageCalled /\
           (Trim(g_lastStep'.text) = <<>> \/
              (Trim(g_lastStep'.text) = g_prevSent /\ ~g_clearedSince)))
        => (~RequestIssued /\ g_lastStep'.ret = "null") ]_vars

\* C2 witness: a call repeating the text just sent, untrimmed, was dropped.
C2_Witness ==
    /\ g_lastStep.op = "skip"
    /\ g_lastStep.text # <<>>
    /\ g_lastStep.text # g_prevSent
    /\ Trim(g_lastStep.text) = g_prevSent
    /\ ~g_clearedSince
    /\ Len(requests) = 1


(***************************************************************************)
(*                          Polling Engine (KDS)                           *)
(***************************************************************************)
DEFAULT_POLL_INTERVAL == 5000

OrderId == 1

DispatcherKinds == { "startOrder", "markOrderReady", "toggleItem",
                     "completeOrder", "bumpOrder", "recallLastOrder" }

\* Dispatchers whose adapter function sends a PATCH /api/orders/:id.
PatchKinds == { "startOrder", "markOrderReady", "completeOrder", "bumpOrder" }

\* The status each adapter function asks for (bumpOrder is markOrderReady).
PatchStatus(kind) ==
    CASE kind = "startOrder" -> "preparing"
      [] kind = "markOrderReady" -> "ready"
      [] kind = "bumpOrder" -> "ready"
      [] kind = "completeOrder" -> "delivered"

NoStats == [newCount |-> 0, preparingCount |-> 0, readyCount |-> 0,
            avgTimeMinutes |-> 0]

\* fetchKDSOrders' mapping of the raw orders: cancelled and delivered orders
\* are filtered out, pending is shown as new.
MapOrders(status) ==
    IF status \in {"cancelled", "delivered"} THEN <<>>
    ELSE << [id |-> OrderId,
             status |-> IF status = "pending" THEN "new" ELSE status] >>

CountStatus(os, sts) == Cardinality({ i \in 1..Len(os) : os[i].status \in sts })

\* fetchKDSOrders' result for a backend in state `b`.
KDSDashboardResponse(b) ==
    LET os == MapOrders(b.status) IN
    [ ok |-> TRUE,
      orders |-> os,
      stats |-> [ new_count |-> CountStatus(os, {"new", "pending"}),
                  preparing_count |-> CountStatus(os, {"preparing"}),
                  ready_count |-> CountStatus(os, {"ready"}),
                  avg_time_minutes |-> 15 ],
      applied |-> b.applied ]

KdsInit ==
    /\ enabled \in BOOLEAN
    /\ mounted = "no"
    /\ orders = <<>>
    /\ stats = NoStats
    /\ isLoading = TRUE
    /\ kdsError = ""
    /\ lastUpdated = 0
    /\ isPolling = TRUE
    /\ pollIntervalRef = 0
    /\ abortControllerRef = 0
    /\ liveTimers = {}
    /\ fetches = {}
    /\ nFetch = 0
    /\ backend = [status |-> "pending", applied |-> {}]
    /\ calls = <<>>
    /\ g_aborted = {}
    /\ g_ordersSeen = {}
    /\ g_settled = {}

\* fetchData up to its await: the previous controller is aborted, a new one
\* is created, the error is cleared and fetchKDSOrders() sends the GET.  The
\* controller's signal is not given to fetchKDSOrders, so aborting a
\* controller cancels no request.  `by` is the dispatcher call that awaits
\* this fetch (0: none).
fetchData(by) ==
    /\ nFetch < MaxFetches
    /\ nFetch' = nFetch + 1
    /\ g_aborted' = IF abortControllerRef # 0
                    THEN g_aborted \cup {abortControllerRef} ELSE g_aborted
    /\ abortControllerRef' = nFetch + 1
    /\ kdsError' = IF mounted = "gone" THEN kdsError ELSE ""
    /\ fetches' = fetches \cup
          {[id |-> nFetch + 1, phase |-> "sent", by |-> by,
            snap |-> KDSDashboardResponse([status |-> "none", applied |-> {}])]}

\* startPolling without its `if (pollIntervalRef.current) return` guard.
startPolling_NoGuard ==
    /\ isPolling' = TRUE
    /\ pollIntervalRef' = nFetch + 1
    /\ liveTimers' = liveTimers \cup {nFetch + 1}

\* startPolling: nothing when a timer is held, else setIsPolling(true) and
\* setInterval(fetchData, pollIntervalMs).  Both callers run fetchData just
\* before, so the number of that fetch names the new timer (setInterval
\* returns a fresh id every time).
startPolling ==
    IF pollIntervalRef # 0
    THEN UNCHANGED << isPolling, pollIntervalRef, liveTimers >>
    ELSE /\ isPolling' = TRUE
         /\ pollIntervalRef' = nFetch + 1
         /\ liveTimers' = liveTimers \cup {nFetch + 1}

\* stopPolling dropping its timer reference without clearInterval.
stopPolling_KeepTimer ==
    /\ isPolling' = FALSE
    /\ pollIntervalRef' = 0
    /\ liveTimers' = liveTimers
    /\ abortControllerRef' = 0
    /\ g_aborted' = IF abortControllerRef # 0
                    THEN g_aborted \cup {abortControllerRef} ELSE g_aborted

\* stopPolling: clearInterval on the held timer, the reference nulled, the
\* current controller aborted and nulled, setIsPolling(false).
stopPolling ==
    /\ isPolling' = FALSE
    /\ pollIntervalRef' = 0
    /\ liveTimers' = liveTimers \ {pollIntervalRef}
    /\ abortControllerRef' = 0
    /\ g_aborted' = IF abortControllerRef # 0
                    THEN g_aborted \cup {abortControllerRef} ELSE g_aborted

\* The two effects, run once the hook has mounted.
Mount ==
    /\ mounted = "no"
    /\ mounted' = "yes"
    /\ IF enabled
       THEN /\ fetchData(0)
            /\ startPolling
       ELSE UNCHANGED << nFetch, g_aborted, abortControllerRef, kdsError,
                         fetches, isPolling, pollIntervalRef, liveTimers >>
    /\ UNCHANGED << enabled, orders, stats, isLoading, lastUpdated, backend,
                    calls, g_ordersSeen, g_settled >>

\* The effects' cleanups.
Unmount ==
    /\ mounted = "yes"
    /\ mounted' = "gone"
    /\ IF enabled
       THEN stopPolling
       ELSE UNCHANGED << isPolling, pollIntervalRef, liveTimers,
                         abortControllerRef, g_aborted >>
    /\ UNCHANGED << enabled, orders, stats, isLoading, kdsError, lastUpdated,
                    fetches, nFetch, backend, calls, g_ordersSeen, g_settled >>

\* The interval timer fires.
Tick ==
    /\ \E t \in liveTimers : TRUE
    /\ fetchData(0)
    /\ UNCHANGED << enabled, mounted, orders, stats, isLoading, lastUpdated,
                    isPolling, pollIntervalRef, liveTimers, backend, calls,
                    g_ordersSeen, g_settled >>

\* handleFocus, and handleVisibilityChange with the document visible.
handleFocus ==
    /\ mounted = "yes"
    /\ fetchData(0)
    /\ startPolling
    /\ UNCHANGED << enabled, mounted, orders, stats, isLoading, lastUpdated,
                    backend, calls, g_ordersSeen, g_settled >>

\* handleBlur, and handleVisibilityChange with the document hidden.
handleBlur ==
    /\ mounted = "yes"
    /\ stopPolling
    /\ UNCHANGED << enabled, mounted, orders, stats, isLoading, kdsError,
                    lastUpdated, fetches, nFetch, backend, calls, g_ordersSeen,
                    g_settled >>

Focus == handleFocus
Blur == handleBlur
VisibilityVisible == handleFocus
VisibilityHidden == handleBlur

\* refresh, called by the consumer (manual refresh).
refresh ==
    /\ mounted = "yes"
    /\ isLoading' = TRUE
    /\ fetchData(0)
    /\ UNCHANGED << enabled, mounted, orders, stats, lastUpdated, isPolling,
                    pollIntervalRef, liveTimers, backend, calls, g_ordersSeen,
                    g_settled >>

\* The backend answers a GET with its state of that moment.
FetchServed ==
    \E f \in fetches :
        /\ f.phase = "sent"
        /\ fetches' = (fetches \ {f}) \cup
              {[f EXCEPT !.phase = "served", !.snap = KDSDashboardResponse(backend)]}
        /\ UNCHANGED << enabled, mounted, orders, stats, isLoading, kdsError,
                        lastUpdated, isPolling, pollIntervalRef,
                        abortControllerRef, liveTimers, nFetch, backend, calls,
                        g_aborted, g_ordersSeen, g_settled >>

\* A dispatcher whose awaited refresh() was fetch `f` returns result.ok.
ResolveAwaiting(f) ==
    [ i \in 1..Len(calls) |->
        IF calls[i].phase = "refreshing" /\ calls[i].refresh = f.id
        THEN [calls[i] EXCEPT !.phase = "done", !.result = "true"]
        ELSE calls[i] ]

\* fetchData after the await, fetchKDSOrders resolved.
fetchDataResolved(f) ==
    /\ f.phase = "served"
    /\ fetches' = fetches \ {f}
    /\ IF mounted = "gone"
       THEN UNCHANGED << orders, stats, lastUpdated, isLoading, g_ordersSeen >>
       ELSE /\ IF f.snap.ok
               THEN /\ orders' = f.snap.orders
                    /\ stats' = [ newCount |-> f.snap.stats.new_count,
                                  preparingCount |-> f.snap.stats.preparing_count,
                                  readyCount |-> f.snap.stats.ready_count,
                                  avgTimeMinutes |-> f.snap.stats.avg_time_minutes ]
                    /\ lastUpdated' = lastUpdated + 1
                    /\ g_ordersSeen' = f.snap.applied
               ELSE UNCHANGED << orders, stats, lastUpdated, g_ordersSeen >>
            /\ isLoading' = FALSE
    /\ calls' = ResolveAwaiting(f)
    /\ g_settled' = g_settled \cup {f.id}
    /\ UNCHANGED << enabled, mounted, kdsError, isPolling, pollIntervalRef,
                    abortControllerRef, liveTimers, nFetch, backend, g_aborted >>

\* fetchData whose catch drops what it shows (orders and stats reset).
fetchDataRejected_ClearsOrders(f) ==
    /\ fetches' = fetches \ {f}
    /\ IF mounted = "gone"
       THEN UNCHANGED << kdsError, isLoading, orders, stats >>
       ELSE /\ kdsError' = "Failed to fetch orders"
            /\ isLoading' = FALSE
            /\ orders' = <<>>
            /\ stats' = NoStats
    /\ calls' = ResolveAwaiting(f)
    /\ g_settled' = g_settled \cup {f.id}
    /\ UNCHANGED << enabled, mounted, lastUpdated, isPolling,
                    pollIntervalRef, abortControllerRef, liveTimers, nFetch,
                    backend, g_aborted, g_ordersSeen >>

\* fetchData after the await, fetchKDSOrders threw (fetch rejected, status
\* not 2xx, body not JSON).  No fetch is given a signal, so the error is
\* never an AbortError.
fetchDataRejected(f) ==
    /\ fetches' = fetches \ {f}
    /\ IF mounted = "gone"
       THEN UNCHANGED << kdsError, isLoading >>
       ELSE /\ kdsError' = "Failed to fetch orders"
            /\ isLoading' = FALSE
    /\ calls' = ResolveAwaiting(f)
    /\ g_settled' = g_settled \cup {f.id}
    /\ UNCHANGED << enabled, mounted, orders, stats, lastUpdated, isPolling,
                    pollIntervalRef, abortControllerRef, liveTimers, nFetch,
                    backend, g_aborted, g_ordersSeen >>

FetchCompletes == \E f \in fetches : fetchDataResolved(f)
FetchFails == \E f \in fetches : fetchDataRejected(f)


\* (NewCall below: `sent` counts the mutating requests the call's adapter
\* function has handed to fetch.)
\* The result { ok } an adapter function of kdsApi makes of what happened to
\* its request: ok only for a 2xx answer; toggleOrderItem sends nothing and
\* returns ok ("noop"), recallLastOrder sends nothing and returns not ok
\* ("notImplemented"); a rejected fetch or an unreadable body is caught.
AdapterOk(answer) == answer \in {"2xx", "noop"}

NewCall(kind) ==
    [kind |-> kind, phase |-> "requesting", answer |-> "none",
     result |-> "pending", refresh |-> 0, sent |-> 0]

\* A dispatcher resolving its promise without awaiting refresh().
dispatcherContinue_NoAwait(cs, i, answer) ==
    /\ UNCHANGED << orders, stats, lastUpdated, g_ordersSeen >>
    /\ IF AdapterOk(answer)
       THEN /\ isLoading' = IF mounted = "gone" THEN isLoading ELSE TRUE
            /\ fetchData(i)
            /\ calls' = [cs EXCEPT ![i].phase = "done", ![i].answer = answer,
                                   ![i].result = "true", ![i].refresh = nFetch + 1]
       ELSE /\ calls' = [cs EXCEPT ![i].phase = "done", ![i].answer = answer,
                                   ![i].result = "false"]
            /\ UNCHANGED << isLoading, nFetch, g_aborted, abortControllerRef,
                            kdsError, fetches >>

\* A dispatcher refreshing whatever the result.
dispatcherContinue_AlwaysRefresh(cs, i, answer) ==
    /\ UNCHANGED << orders, stats, lastUpdated, g_ordersSeen >>
    /\ isLoading' = IF mounted = "gone" THEN isLoading ELSE TRUE
    /\ fetchData(i)
    /\ calls' = [cs EXCEPT ![i].phase = "refreshing", ![i].answer = answer,
                           ![i].refresh = nFetch + 1]

\* A dispatcher applying the action to its cached orders (optimistic update).
dispatcherContinue_Optimistic(cs, i, answer) ==
    /\ UNCHANGED << stats, lastUpdated >>
    /\ IF AdapterOk(answer)
       THEN /\ isLoading' = IF mounted = "gone" THEN isLoading ELSE TRUE
            /\ fetchData(i)
            /\ orders' = IF cs[i].kind \in PatchKinds
                         THEN MapOrders(PatchStatus(cs[i].kind)) ELSE orders
            /\ g_ordersSeen' = g_ordersSeen \cup {i}
            /\ calls' = [cs EXCEPT ![i].phase = "refreshing", ![i].answer = answer,
                                   ![i].refresh = nFetch + 1]
       ELSE /\ calls' = [cs EXCEPT ![i].phase = "done", ![i].answer = answer,
                                   ![i].result = "false"]
            /\ UNCHANGED << isLoading, nFetch, g_aborted, abortControllerRef,
                            kdsError, fetches, orders, g_ordersSeen >>

\* A dispatcher of useKDSPolling after `await api...()`: with result.ok it
\* awaits refresh() (setIsLoading(true); await fetchData()), otherwise it
\* returns false.
dispatcherContinue(cs, i, answer) ==
    /\ UNCHANGED << orders, stats, lastUpdated, g_ordersSeen >>
    /\ IF AdapterOk(answer)
       THEN /\ isLoading' = IF mounted = "gone" THEN isLoading ELSE TRUE
            /\ fetchData(i)
            /\ calls' = [cs EXCEPT ![i].phase = "refreshing", ![i].answer = answer,
                                   ![i].refresh = nFetch + 1]
       ELSE /\ calls' = [cs EXCEPT ![i].phase = "done", ![i].answer = answer,
                                   ![i].result = "false"]
            /\ UNCHANGED << isLoading, nFetch, g_aborted, abortControllerRef,
                            kdsError, fetches >>

\* startOrder, markOrderReady, completeOrder, bumpOrder: the PATCH is sent.
DispatchPatch ==
    \E kind \in PatchKinds :
        /\ mounted = "yes"
        /\ Len(calls) < MaxActions
        /\ calls' = Append(calls, [NewCall(kind) EXCEPT !.sent = 1])
        /\ UNCHANGED << enabled, mounted, orders, stats, isLoading, kdsError,
                        lastUpdated, isPolling, pollIntervalRef,
                        abortControllerRef, liveTimers, fetches, nFetch, backend,
                        g_aborted, g_ordersSeen, g_settled >>

\* toggleItem: toggleOrderItem sends nothing and returns { ok: true }.
DispatchToggleItem ==
    /\ mounted = "yes"
    /\ Len(calls) < MaxActions
    /\ dispatcherContinue(Append(calls, NewCall("toggleItem")), Len(calls) + 1, "noop")
    /\ UNCHANGED << enabled, mounted, isPolling, pollIntervalRef, liveTimers,
                    backend, g_settled >>

\* recallLastOrder: the adapter sends nothing and returns { ok: false }.
DispatchRecall ==
    /\ mounted = "yes"
    /\ Len(calls) < MaxActions
    /\ dispatcherContinue(Append(calls, NewCall("recallLastOrder")),
                          Len(calls) + 1, "notImplemented")
    /\ UNCHANGED << enabled, mounted, isPolling, pollIntervalRef, liveTimers,
                    backend, g_settled >>

\* The backend answers a PATCH: it sets the status and answers 2xx, or
\* refuses with another status.
PatchServed ==
    \E i \in 1..Len(calls) : \E answer \in {"2xx", "non2xx"} :
        /\ calls[i].phase = "requesting"
        /\ calls' = [calls EXCEPT ![i].phase = "answered", ![i].answer = answer]
        /\ backend' = IF answer = "2xx"
                      THEN [status |-> PatchStatus(calls[i].kind),
                            applied |-> backend.applied \cup {i}]
                      ELSE backend
        /\ UNCHANGED << enabled, mounted, orders, stats, isLoading, kdsError,
                        lastUpdated, isPolling, pollIntervalRef,
                        abortControllerRef, liveTimers, fetches, nFetch,
                        g_aborted, g_ordersSeen, g_settled >>

\* The adapter function returns what the backend answered.
PatchReturns ==
    \E i \in 1..Len(calls) :
        /\ calls[i].phase = "answered"
        /\ dispatcherContinue(calls, i, calls[i].answer)
        /\ UNCHANGED << enabled, mounted, isPolling, pollIntervalRef, liveTimers,
                        backend, g_settled >>

\* The adapter function catches a rejected fetch or an unreadable body.
PatchThrows ==
    \E i \in 1..Len(calls) :
        /\ calls[i].phase \in {"requesting", "answered"}
        /\ dispatcherContinue(calls, i, "transport")
        /\ UNCHANGED << enabled, mounted, isPolling, pollIntervalRef, liveTimers,
                        backend, g_settled >>


\* C16: when the request of sendMessage fails (the fetch rejects, or the
\* status is not 2xx), sendMessage returns null, error is the generic message,
\* lastResponse is empty and isThinking false; neither the call nor its
\* failure changes sessionId, the persisted session id or conversationHistory.
C16_FailureLeavesSession ==
    [][ /\ BrainFails
           => /\ g_lastStep'.op = "fail" /\ g_lastStep'.ret = "null"
              /\ error' = GenericError
              /\ lastResponse' = ""
              /\ ~isThinking'
              /\ UNCHANGED << sessionId, storedSessionId, conversationHistory >>
        /\ SendMessageCall
           => UNCHANGED << sessionId, storedSessionId, conversationHistory >> ]_vars

\* C16 witness: a request has failed after an earlier one was answered: the
\* history of the answered exchange is still there under the generic error.
C16_Witness ==
    /\ g_lastStep.op = "fail"
    /\ g_lastStep.ret = "null"
    /\ error = GenericError
    /\ conversationHistory # <<>>
    /\ sessionId = storedSessionId


\* C22: each finalized voice transcript is sent to the backend at most once,
\* whatever re-renders follow its submission.
C22_TranscriptSentOnce == home.sends <= 1

\* C23: a failed message can be resent: the sendMessage of the text whose
\* request has just failed issues a new request.
C23_FailedCanBeResent ==
    [][ ( /\ g_lastStep.op = "fail"
          /\ SendMessageCalled
          /\ Trim(g_lastStep'.text) = requests[g_lastStep.rid].text )
        => RequestIssued ]_vars

\* C26: once a response with conversationClosed = true has been processed,
\* the next request does not carry the session id of the request it
\* answered, whether or not the response named a new session.
C26_ClosedSessionNotReused ==
    [][ ( /\ g_lastStep.op = "ok"
          /\ lastFullResponse.conversationClosed
          /\ RequestIssued )
        => requests'[Len(requests')].sid # requests[g_lastStep.rid].sid ]_vars

\* A sendMessage call gets its response in this step.
ResponseArrives == g_lastStep'.op = "ok" /\ inFlight' # inFlight

\* C28: a response to a request that was sent under a session id which is
\* no longer current is not appended to conversationHistory and does not
\* become lastFullResponse.
C28_StaleResponseDropped ==
    [][ ( /\ ResponseArrives
          /\ requests[g_lastStep'.rid].sid # sessionId )
        => /\ Len(conversationHistory') <= Len(conversationHistory)
           /\ lastFullResponse' = lastFullResponse ]_vars

\* C29: isThinking is true whenever at least one sendMessage request is in
\* flight and false when none is.
C29_ThinkingIffInFlight == isThinking <=> inFlight # {}

(***************************************************************************)
(* Claims about the Polling Engine.                                        *)
(***************************************************************************)
\* C3: at most one poll fetch is in flight: when fetchData starts, the
\* earlier fetch is cancelled, so that only the latest fetch can still be
\* answered and applied.
C3_AtMostOneInFlight == Cardinality(fetches) <= 1

\* The call's adapter result has arrived in this step.
ResultArrives(i) ==
    /\ i \in 1..Len(calls')
    /\ (i > Len(calls) \/ calls[i].phase \in {"requesting", "answered"})
    /\ calls'[i].phase \notin {"requesting", "answered"}

\* C4 as stated: before the post-action refresh of a dispatcher call has
\* completed (the call has resolved), orders never shows the call's effect.
C4_Original ==
    \A i \in 1..Len(calls) : i \in g_ordersSeen => calls[i].phase = "done"

\* C4 as amended: orders changes, and so comes to show a mutation, only in a
\* step that applies the response of a fetch (tick, focus, manual or
\* post-action refresh) which the backend served after applying that
\* mutation; no dispatcher step changes orders by itself.
C4_EffectOnlyByFetch ==
    [][ (orders' # orders \/ g_ordersSeen' # g_ordersSeen) =>
          \E f \in fetches \ fetches' :
              /\ f.phase = "served"
              /\ orders' = f.snap.orders
              /\ g_ordersSeen' = f.snap.applied
              /\ g_ordersSeen' \subseteq backend.applied ]_vars

\* C4 witness: orders shows the effect of a call that has not resolved yet.
C4_Witness ==
    \E i \in 1..Len(calls) :
        /\ i \in g_ordersSeen
        /\ calls[i].phase \in {"answered", "refreshing"}
        /\ orders = MapOrders(PatchStatus(calls[i].kind))

\* C5: with an ok result the dispatcher starts its refresh fetch only after
\* the mutation result has arrived, and it resolves to true only after that
\* fetch has settled.
C5_RefreshBeforeTrue ==
    \A i \in 1..Len(calls) :
        /\ calls[i].phase \in {"requesting", "answered"} =>
              /\ calls[i].refresh = 0
              /\ \A f \in fetches : f.by # i
        /\ (AdapterOk(calls[i].answer) /\ calls[i].phase \in {"refreshing", "done"}) =>
              /\ calls[i].refresh # 0
              /\ calls[i].refresh \in g_settled \/ calls[i].phase = "refreshing"
        /\ calls[i].result = "true" =>
              /\ AdapterOk(calls[i].answer)
              /\ calls[i].refresh \in g_settled
              /\ \A f \in fetches : f.id # calls[i].refresh
        /\ (calls[i].phase = "done" /\ AdapterOk(calls[i].answer)) =>
              calls[i].result = "true"

\* C5 witness: startOrder has resolved to true.
C5_Witness ==
    \E i \in 1..Len(calls) :
        /\ calls[i].kind = "startOrder"
        /\ calls[i].result = "true"

C17_OneMutatingRequest ==
    \A i \in 1..Len(calls) : calls[i].phase = "done" => calls[i].sent = 1

\* A stop path of the hook runs: blur, the document turning hidden, unmount.
StopPath == handleBlur \/ Unmount

C14_OneTimerAfterFocus ==
    /\ [](Cardinality(liveTimers) <= 1)
    /\ [][ handleFocus
             => /\ \E f \in fetches' \ fetches : f.phase = "sent" /\ f.id = nFetch'
                /\ nFetch' = nFetch + 1
                /\ liveTimers' = {pollIntervalRef'}
                /\ pollIntervalRef' # 0
                /\ isPolling' ]_vars

\* C14 witness: polling was stopped and a focus event has restarted it: the
\* one live timer is the one created with the second fetch, which is in
\* flight.
C14_Witness ==
    /\ liveTimers = {2}
    /\ pollIntervalRef = 2
    /\ isPolling
    /\ \E f \in fetches : f.id = 2 /\ f.phase = "sent"

\* C15: a poll fetch failing while the hook is mounted sets the error and
\* leaves orders, stats and lastUpdated as the last successful fetch left
\* them; it clears no timer, so the next tick fetches again; a later
\* successful fetch replaces orders and stats by what the backend answered.
C15_StaleButAvailable ==
    [][ /\ \A f \in fetches :
              (fetchDataRejected(f) /\ mounted = "yes")
              => /\ kdsError' = "Failed to fetch orders"
                 /\ UNCHANGED << orders, stats, lastUpdated >>
                 /\ UNCHANGED << liveTimers, pollIntervalRef, isPolling >>
                 /\ (liveTimers # {} /\ nFetch < MaxFetches) => ENABLED Tick
        /\ \A f \in fetches :
              (fetchDataResolved(f) /\ mounted = "yes")
              => /\ orders' = f.snap.orders
                 /\ stats'.newCount = f.snap.stats.new_count
                 /\ stats'.preparingCount = f.snap.stats.preparing_count
                 /\ stats'.readyCount = f.snap.stats.ready_count
                 /\ kdsError' = kdsError ]_vars

\* C15 witness: an error is shown next to the orders of an earlier
\* successful fetch, with the timer still live.
C15_Witness ==
    /\ mounted = "yes"
    /\ kdsError = "Failed to fetch orders"
    /\ orders # <<>>
    /\ lastUpdated # 0
    /\ liveTimers # {}

\* C25: while the Polling Engine is configured with enabled = false it runs
\* no interval timer (and so issues no poll fetch), whatever focus, blur and
\* visibility events occur.
C25_DisabledRunsNoTimer ==
    ~enabled => (liveTimers = {} /\ pollIntervalRef = 0 /\ ~ENABLED Tick)

\* C30: stopping the Polling Engine aborts the in-flight fetch: a fetch that
\* settles while the engine holds no controller (it was in flight at the last
\* blur, hide or unmount, and none was started since) changes none of
\* orders, stats, lastUpdated and error.
C30_StopAbortsInFlightFetch ==
    [][ (abortControllerRef = 0 /\ g_settled' # g_settled)
        => UNCHANGED << orders, stats, lastUpdated, kdsError >> ]_vars


(***************************************************************************)
(*                        TTS Playback Controller                          *)
(***************************************************************************)
\* The chunks of the k-th playChunked call, n of them.
Chunks(k, n) == [ j \in 1..n |-> [call |-> k, idx |-> j] ]

SeqRange(q) == { q[i] : i \in 1..Len(q) }

\* Chunks of call k handed to speechSynthesis so far.
SpokenOf(k) == { i \in 1..Len(g_spoken) : g_spoken[i].chunk.call = k }

\* The utterance the loop of call k awaits.
ChunkUtterance(k) == [owner |-> k, n |-> 0]

\* this.utterance = null
NoUtterance == [owner |-> -1, n |-> 0]

TtsInit ==
    /\ utterance = NoUtterance
    /\ currentAudio = 0
    /\ currentController = "null"
    /\ chunkQueue = <<>>
    /\ isPlaying = FALSE
    /\ synth = <<>>
    /\ cancelled = {}
    /\ loops = <<>>
    /\ audios = {}
    /\ g_spoken = <<>>
    /\ g_stopAt = <<>>

\* stop() that cancels speech and audio but leaves the chunk queue and the
\* playing flag alone.
stop_KeepQueue ==
    [ isPlaying |-> isPlaying,
      chunkQueue |-> chunkQueue,
      synth |-> <<>>,
      cancelled |-> cancelled \cup SeqRange(synth),
      utterance |-> NoUtterance,
      currentAudio |-> 0,
      audios |-> audios \ {currentAudio},
      currentController |-> "null" ]

\* stop() without its step 4 (the controller is left as it is).
stop_KeepController ==
    [ isPlaying |-> FALSE,
      chunkQueue |-> <<>>,
      synth |-> <<>>,
      cancelled |-> cancelled \cup SeqRange(synth),
      utterance |-> NoUtterance,
      currentAudio |-> 0,
      audios |-> audios \ {currentAudio},
      currentController |-> currentController ]

\* stop(): the state it leaves.  speechSynthesis.cancel() empties the synth's
\* queue; each cancelled utterance gets its event later.
stop ==
    [ isPlaying |-> FALSE,
      chunkQueue |-> <<>>,
      synth |-> <<>>,
      cancelled |-> cancelled \cup SeqRange(synth),
      utterance |-> NoUtterance,
      currentAudio |-> 0,
      audios |-> audios \ {currentAudio},
      currentController |-> "null" ]

\* stop() called by the consumer.
StopCall ==
    /\ isPlaying' = stop.isPlaying
    /\ chunkQueue' = stop.chunkQueue
    /\ synth' = stop.synth
    /\ cancelled' = stop.cancelled
    /\ utterance' = stop.utterance
    /\ currentAudio' = stop.currentAudio
    /\ audios' = stop.audios
    /\ currentController' = stop.currentController
    /\ g_stopAt' = [ k \in 1..Len(loops) |->
                       IF loops[k].pc # "done" /\ g_stopAt[k].at < 0
                       THEN [at |-> Cardinality(SpokenOf(k)), pc |-> loops[k].pc]
                       ELSE g_stopAt[k] ]
    /\ UNCHANGED << loops, g_spoken >>

\* startAsyncRequest()
startAsyncRequest ==
    /\ currentController' = "set"
    /\ isPlaying' = stop.isPlaying
    /\ chunkQueue' = stop.chunkQueue
    /\ synth' = stop.synth
    /\ cancelled' = stop.cancelled
    /\ utterance' = stop.utterance
    /\ currentAudio' = stop.currentAudio
    /\ audios' = stop.audios
    /\ UNCHANGED << loops, g_spoken, g_stopAt >>

\* registerAudio(audio), the audio element playing.
registerAudio(a) ==
    /\ audios' = (audios \ {currentAudio}) \cup {a}
    /\ currentAudio' = a
    /\ UNCHANGED << utterance, currentController, chunkQueue, isPlaying, synth,
                    cancelled, loops, g_spoken, g_stopAt >>

RegisterAudioCall == \E a \in 1..MaxAudios : registerAudio(a)

\* The 'ended' listener registerAudio added.
AudioEnded ==
    \E a \in 1..MaxAudios :
        /\ a \in audios
        /\ audios' = audios \ {a}
        /\ currentAudio' = IF currentAudio = a THEN 0 ELSE currentAudio
        /\ UNCHANGED << utterance, currentController, chunkQueue, isPlaying,
                        synth, cancelled, loops, g_spoken,
                        g_stopAt >>

\* Names for the utterances of speak calls: one that no utterance still
\* awaiting its event carries.
FreeSpeakIds ==
    { i \in 1..MaxSpeaks :
        [owner |-> 0, n |-> i] \notin (SeqRange(synth) \cup cancelled) }

NewSpeakId == CHOOSE i \in FreeSpeakIds : \A j \in FreeSpeakIds : i <= j

\* speak(text)
speak ==
    /\ FreeSpeakIds # {}
    /\ utterance' = [owner |-> 0, n |-> NewSpeakId]
    /\ synth' = Append(stop.synth, [owner |-> 0, n |-> NewSpeakId])
    /\ isPlaying' = stop.isPlaying
    /\ chunkQueue' = stop.chunkQueue
    /\ cancelled' = stop.cancelled
    /\ currentAudio' = stop.currentAudio
    /\ audios' = stop.audios
    /\ currentController' = stop.currentController
    /\ UNCHANGED << loops, g_spoken, g_stopAt >>

\* The chunk loop of call k leaves its while loop: this.isPlaying = false and
\* the promise of playChunked resolves.
LoopExit(k) ==
    /\ isPlaying' = FALSE
    /\ loops' = [loops EXCEPT ![k].pc = "done", ![k].result = "resolved"]
    /\ UNCHANGED << chunkQueue, g_spoken >>

\* The loop of call k shifts the next chunk and awaits playOneChunk: with
\* isPlaying set, the utterance is created, kept in this.utterance and handed
\* to speechSynthesis.speak.  `q` is the synth's queue at that moment.
playOneChunk(k, q) ==
    /\ chunkQueue' = Tail(chunkQueue)
    /\ utterance' = ChunkUtterance(k)
    /\ synth' = Append(q, ChunkUtterance(k))
    /\ g_spoken' = Append(g_spoken, [by |-> k, chunk |-> Head(chunkQueue)])
    /\ loops' = [loops EXCEPT ![k].pc = "chunk"]
    /\ UNCHANGED isPlaying

\* The top of the while loop of playChunked, run by the loop of call k, with
\* the synth's queue `q` and this.utterance `u` at that moment.
LoopWhile(k, q, u) ==
    IF chunkQueue # <<>> /\ isPlaying
    THEN playOneChunk(k, q)
    ELSE /\ LoopExit(k)
         /\ synth' = q
         /\ utterance' = u

\* playOneChunk's promise resolved: the pause between chunks, or the exit.
LoopChunkResolved(k, q) ==
    IF chunkQueue # <<>> /\ isPlaying
    THEN /\ loops' = [loops EXCEPT ![k].pc = "pause"]
         /\ synth' = q
         /\ utterance' = NoUtterance
         /\ UNCHANGED << chunkQueue, isPlaying, g_spoken >>
    ELSE /\ LoopExit(k)
         /\ synth' = q
         /\ utterance' = NoUtterance

\* playOneChunk's promise rejected: the catch block.
LoopChunkRejected(k, q) ==
    IF ~isPlaying
    THEN /\ LoopExit(k)
         /\ synth' = q
         /\ utterance' = NoUtterance
    ELSE LoopWhile(k, q, NoUtterance)

\* An event of utterance u: "end", or an error named by ev.
UtteranceEvent(u, ev, q) ==
    IF u.owner = 0
    THEN \* speak(): only onend is set
         /\ utterance' = IF ev = "end" THEN NoUtterance ELSE utterance
         /\ synth' = q
         /\ UNCHANGED << chunkQueue, isPlaying, loops, g_spoken >>
    ELSE IF ev \in {"end", "interrupted", "canceled"}
         THEN LoopChunkResolved(u.owner, q)
         ELSE LoopChunkRejected(u.owner, q)

\* The utterance being spoken ends.
UtteranceEnds ==
    /\ synth # <<>>
    /\ UtteranceEvent(Head(synth), "end", Tail(synth))
    /\ UNCHANGED << currentAudio, currentController, cancelled, audios,
                    g_stopAt >>

\* The utterance being spoken fails with an error other than a cancellation.
UtteranceErrors ==
    /\ synth # <<>>
    /\ UtteranceEvent(Head(synth), "synthesis-failed", Tail(synth))
    /\ UNCHANGED << currentAudio, currentController, cancelled, audios,
                    g_stopAt >>

\* The utterance being spoken ends, or fails with an error other than a
\* cancellation.
UtteranceFinishes == UtteranceEnds \/ UtteranceErrors

\* A cancelled utterance gets its event: browsers fire end, or an error
\* event with 'interrupted' or 'canceled'.
CancelDelivered(u) ==
    /\ u \in cancelled
    /\ cancelled' = cancelled \ {u}
    /\ \E ev \in {"end", "interrupted", "canceled"} :
           UtteranceEvent(u, ev, synth)
    /\ UNCHANGED << currentAudio, currentController, audios, g_stopAt >>

CancelEvent == \E u \in cancelled : CancelDelivered(u)

\* The timer of pause() fires for the loop of call k.
PauseTimerFires(k) ==
    /\ k \in 1..Len(loops)
    /\ loops[k].pc = "pause"
    /\ LoopWhile(k, synth, utterance)
    /\ UNCHANGED << currentAudio, currentController, cancelled, audios,
                    g_stopAt >>

TimerEvent == \E k \in 1..Len(loops) : PauseTimerFires(k)

\* playChunked(chunks) with n chunks
playChunked(n) ==
    LET k == Len(loops) + 1
        chunks == Chunks(k, n)
    IN  /\ cancelled' = stop.cancelled
        /\ currentAudio' = stop.currentAudio
        /\ audios' = stop.audios
        /\ currentController' = stop.currentController
        /\ g_stopAt' = Append(g_stopAt, [at |-> -1, pc |-> "none"])
        /\ IF n = 0
           THEN /\ loops' = Append(loops, [pc |-> "done", result |-> "resolved",
                                           total |-> n])
                /\ isPlaying' = stop.isPlaying
                /\ chunkQueue' = stop.chunkQueue
                /\ synth' = stop.synth
                /\ utterance' = stop.utterance
                /\ UNCHANGED g_spoken
           ELSE /\ isPlaying' = TRUE
                /\ chunkQueue' = Tail(chunks)
                /\ utterance' = ChunkUtterance(k)
                /\ synth' = Append(stop.synth, ChunkUtterance(k))
                /\ g_spoken' = Append(g_spoken, [by |-> k, chunk |-> Head(chunks)])
                /\ loops' = Append(loops, [pc |-> "chunk", result |-> "pending",
                                           total |-> n])

PlayChunkedCall ==
    /\ Len(loops) < MaxPlays
    /\ \E n \in 0..MaxChunks : playChunked(n)

\* playChunked(chunks) called while the loop of an earlier call has not
\* exited; one such call may come on top of the MaxPlays calls.
PlayChunkedWhileActive ==
    /\ Len(loops) <= MaxPlays
    /\ \E k \in 1..Len(loops) : loops[k].pc # "done"
    /\ \E n \in 1..MaxChunks : playChunked(n)

(***************************************************************************)
(*                    Claims about the TTS controller                      *)
(***************************************************************************)
\* C7: at every moment at most one of the two playback handles is set: the
\* speech utterance and the registered audio element are never both non-null.
C7_NeverBothHandles == ~(utterance # NoUtterance /\ currentAudio # 0)

\* A stop() call found the loop of the k-th playChunked call under way.
StoppedDuring(k) == k <= Len(loops) /\ g_stopAt[k].at >= 0

\* The chunk loop of the k-th call has exited and its promise resolved.
LoopResolved(k) ==
    k <= Len(loops) /\ loops[k].pc = "done" /\ loops[k].result = "resolved"

\* No chunk of call k was handed to speech synthesis after that stop(), and
\* the promise of the call has not been rejected.
C8_NothingSpokenAfterStop ==
    \A k \in 1..Len(loops) :
        StoppedDuring(k) =>
            /\ Cardinality(SpokenOf(k)) = g_stopAt[k].at
            /\ loops[k].result # "rejected"

\* C8: once stop() was called while a playChunked call was under way, no
\* further chunk of that call is handed to speech synthesis, its chunk loop
\* exits and its promise resolves without error.  (A recorded stop stays
\* recorded and an exited loop stays exited, so "each stopped loop eventually
\* exits" is "eventually every stopped loop has exited, for good".)
C8_StopEndsChunkedPlayback ==
    /\ [] C8_NothingSpokenAfterStop
    /\ <>[] (\A k \in 1..Len(loops) : StoppedDuring(k) => LoopResolved(k))

\* stop() came while chunk a of [a, b, c] was being spoken, and the loop of
\* that call has exited.
C8_Witness ==
    \E k \in 1..Len(loops) :
        /\ loops[k].total = 3
        /\ g_stopAt[k] = [at |-> 1, pc |-> "chunk"]
        /\ loops[k].pc = "done"
        /\ loops[k].result = "resolved"

\* The manager is as a stop() leaves it.
Stopped ==
    /\ ~isPlaying
    /\ chunkQueue = <<>>
    /\ utterance = NoUtterance
    /\ currentAudio = 0
    /\ currentController = "null"

\* C19: stop() can be called in every state; each call leaves isPlaying
\* false, the chunk queue empty, and utterance, audio and controller null; a
\* stop() that follows a stop() changes nothing.
C19_StopIdempotent ==
    /\ [] ENABLED StopCall
    /\ [][ /\ StopCall => Stopped'
           /\ (StopCall /\ Stopped /\ synth = <<>>)
                 => UNCHANGED << utterance, currentAudio, currentController,
                                 chunkQueue, isPlaying, synth, cancelled,
                                 loops, audios >> ]_vars

\* C19 witness: stop() was called during a chunked playback and the manager
\* is stopped, the cancelled utterance's event still to come.
C19_Witness ==
    /\ Stopped
    /\ synth = <<>>
    /\ cancelled # {}
    /\ \E k \in 1..Len(loops) : g_stopAt[k].at >= 0 /\ loops[k].pc # "done"

\* C20: a synthesis error other than 'interrupted' and 'canceled' resets the
\* playback: after it nothing is playing, the utterance is cleared and no
\* chunk that remained is spoken.
C20_ErrorResetsPlayback ==
    [][ UtteranceErrors
          => /\ utterance' = NoUtterance
             /\ ~isPlaying'
             /\ g_spoken' = g_spoken ]_vars

\* C27: when playChunked(B) is called while playChunked(A) is active, every
\* chunk is handed to speech synthesis by the loop of the call it was given
\* to (the earlier loop speaks none of B's chunks), and the playing flag is
\* set while a loop still has a chunk being spoken or has chunks left.
C27_LoopsDoNotInterfere ==
    /\ \A i \in 1..Len(g_spoken) : g_spoken[i].by = g_spoken[i].chunk.call
    /\ \A k \in 1..Len(loops) :
           (k = Len(loops) /\ loops[k].pc # "done") => isPlaying

(***************************************************************************)
(*                              Cart Store                                 *)
(***************************************************************************)
Items == {"A", "B"}
Restaurants == {"R1", "R2"}

\* restaurant = null
NoRestaurant == "null"

\* item.quantity of an addToCart call; 0 also stands for an item that
\* carries no quantity (both are falsy).
RequestedQuantities == 0..2

\* const quantityToAdd = item.quantity || 1
quantityToAdd(q) == IF q = 0 THEN 1 ELSE q

\* cart.findIndex(cartItem => cartItem.id === item.id); 0 for -1
findIndex(c, id) ==
    IF \E i \in 1..Len(c) : c[i].id = id
    THEN CHOOSE i \in 1..Len(c) :
             c[i].id = id /\ \A j \in 1..(i - 1) : c[j].id # id
    ELSE 0

\* cart.filter(item => item.id !== itemId)
RECURSIVE filterOut(_, _)
filterOut(c, id) ==
    IF c = <<>> THEN <<>>
    ELSE IF Head(c).id = id THEN filterOut(Tail(c), id)
         ELSE << Head(c) >> \o filterOut(Tail(c), id)

\* The state the provider starts with, its mount effects run on an empty
\* localStorage.
\* localStorage.removeItem(key) / getItem(key) returning null.
Removed == <<>>

\* JSON.stringify(cart): one text holding the entries field by field ("[]"
\* for an empty cart, which is a text and not a removed key).
JSONstringifyCart(c) ==
    << [ i \in 1..Len(c) |-> << c[i].id, c[i].quantity, c[i].addedFor >> ] >>

\* JSON.parse of a stored cart text.
JSONparseCart(t) ==
    [ i \in 1..Len(t[1]) |->
        [id |-> t[1][i][1], quantity |-> t[1][i][2], addedFor |-> t[1][i][3]] ]

\* JSON.stringify(restaurant)
JSONstringifyRestaurant(r) == << r >>

\* JSON.parse of a stored restaurant text.
JSONparseRestaurant(t) == t[1]

\* The save effect of `cart` (CartContext.jsx:48-54).
SavedCart(c) == IF Len(c) > 0 THEN JSONstringifyCart(c) ELSE Removed

\* The save effect of `restaurant` (CartContext.jsx:57-63).
SavedRestaurant(r) ==
    IF r # NoRestaurant THEN JSONstringifyRestaurant(r) ELSE Removed

CartInit ==
    /\ cart = <<>>
    /\ restaurant = NoRestaurant
    /\ pendingCart = <<>>
    /\ pendingRestaurant = <<>>
    /\ lsCart = Removed
    /\ lsRestaurant = Removed
    /\ g_cartOps = 0
    /\ g_onlyAdds = TRUE
    /\ g_adds = <<>>
    /\ cartMounted = TRUE
    /\ isOpen = FALSE
    /\ isSubmitting = FALSE
    /\ submits = <<>>
    /\ g_requests = 0
    /\ g_remount = [ phase |-> "first", memCart |-> <<>>,
                     memRestaurant |-> NoRestaurant, settled |-> TRUE,
                     lsCart |-> Removed, lsRestaurant |-> Removed, ops |-> 0 ]

\* Every state set has been rendered.
CartSettled == pendingCart = <<>> /\ pendingRestaurant = <<>>

\* A cart operation other than submitOrder i ran: every submitOrder call
\* so far is marked as no longer alone.
Disturbed(i) ==
    [ j \in 1..Len(submits) |->
        IF j = i THEN submits[j] ELSE [submits[j] EXCEPT !.disturbed = TRUE] ]

\* What a cart operation leaves alone.
CartOpFrame ==
    /\ cartMounted
    /\ submits' = Disturbed(0)
    /\ UNCHANGED << cartMounted, isOpen, isSubmitting, g_requests, g_remount >>

\* addToCart(item, restaurantData), with the answer window.confirm gives if
\* it is asked.  `cart` and `restaurant` are the values of the render the
\* function was created in.
addToCart(id, q, r, confirm) ==
    LET existingIndex == findIndex(cart, id)
        switch == restaurant # NoRestaurant /\ restaurant # r
    IN  /\ g_cartOps < MaxCartOps
        /\ g_cartOps' = g_cartOps + 1
        /\ g_adds' = Append(g_adds, [id |-> id, r |-> r, q |-> quantityToAdd(q),
                                     declined |-> switch /\ ~confirm])
        /\ UNCHANGED << restaurant, lsCart, lsRestaurant, g_onlyAdds >>
        /\ IF switch /\ ~confirm
           THEN UNCHANGED << cart, pendingCart, pendingRestaurant >>
           ELSE /\ pendingRestaurant' =
                       IF switch \/ restaurant = NoRestaurant
                       THEN << r >> ELSE pendingRestaurant
                /\ IF existingIndex > 0
                   THEN \* newCart[existingIndex].quantity += quantityToAdd
                        \* changes the entry the rendered cart holds as well
                        /\ cart' = [cart EXCEPT ![existingIndex].quantity =
                                                    @ + quantityToAdd(q)]
                        /\ pendingCart' = << cart' >>
                   ELSE /\ pendingCart' =
                               << Append(cart, [id |-> id,
                                                quantity |-> quantityToAdd(q),
                                                addedFor |-> r]) >>
                        /\ UNCHANGED cart

AddToCartCall ==
    \E id \in Items, q \in RequestedQuantities, r \in Restaurants,
       confirm \in BOOLEAN :
        addToCart(id, q, r, confirm) /\ CartOpFrame

\* removeFromCart(itemId): what it sets
removeFromCart(id) ==
    LET newCart == filterOut(cart, id)
    IN  /\ pendingCart' = << newCart >>
        /\ pendingRestaurant' =
               IF newCart = <<>> THEN << NoRestaurant >> ELSE pendingRestaurant
        /\ UNCHANGED << cart, restaurant, lsCart, lsRestaurant >>

RemoveFromCartCall ==
    \E id \in Items :
        /\ g_cartOps < MaxCartOps
        /\ g_cartOps' = g_cartOps + 1
        /\ g_onlyAdds' = FALSE
        /\ removeFromCart(id)
        /\ CartOpFrame
        /\ UNCHANGED g_adds

\* updateQuantity(itemId, quantity)
updateQuantity(id, quantity) ==
    IF quantity <= 0
    THEN removeFromCart(id)
    ELSE /\ pendingCart' =
                << [ i \in 1..Len(cart) |->
                       IF cart[i].id = id
                       THEN [cart[i] EXCEPT !.quantity = quantity]
                       ELSE cart[i] ] >>
         /\ UNCHANGED << cart, restaurant, pendingRestaurant, lsCart,
                         lsRestaurant >>

UpdateQuantityCall ==
    \E id \in Items, quantity \in 0..2 :
        /\ g_cartOps < MaxCartOps
        /\ g_cartOps' = g_cartOps + 1
        /\ g_onlyAdds' = FALSE
        /\ updateQuantity(id, quantity)
        /\ CartOpFrame
        /\ UNCHANGED g_adds

\* clearCart()
clearCart ==
    /\ g_cartOps < MaxCartOps
    /\ g_cartOps' = g_cartOps + 1
    /\ g_onlyAdds' = FALSE
    /\ pendingCart' = << <<>> >>
    /\ pendingRestaurant' = << NoRestaurant >>
    /\ CartOpFrame
    /\ UNCHANGED << cart, restaurant, lsCart, lsRestaurant, g_adds >>

\* React renders the provider with the values set since the last render and
\* runs the two save effects for the state that was set.
Render ==
    /\ pendingCart # <<>> \/ pendingRestaurant # <<>>
    /\ IF pendingCart # <<>>
       THEN /\ cart' = pendingCart[1]
            /\ lsCart' = SavedCart(pendingCart[1])
       ELSE UNCHANGED << cart, lsCart >>
    /\ IF pendingRestaurant # <<>>
       THEN /\ restaurant' = pendingRestaurant[1]
            /\ lsRestaurant' = SavedRestaurant(pendingRestaurant[1])
       ELSE UNCHANGED << restaurant, lsRestaurant >>
    /\ pendingCart' = <<>>
    /\ pendingRestaurant' = <<>>
    /\ g_remount' = IF g_remount.phase = "loaded"
                    THEN [g_remount EXCEPT !.phase = "rendered"] ELSE g_remount
    /\ UNCHANGED << g_cartOps, g_onlyAdds, g_adds, cartMounted, isOpen,
                    isSubmitting, submits, g_requests >>

\* The provider unmounts: its state is gone, storage stays; a submitOrder
\* still awaiting an answer will set the state of an unmounted component.
UnmountCart ==
    /\ cartMounted
    /\ g_cartOps < MaxCartOps
    /\ g_cartOps' = g_cartOps + 1
    /\ g_onlyAdds' = FALSE
    /\ cartMounted' = FALSE
    /\ cart' = <<>>
    /\ restaurant' = NoRestaurant
    /\ pendingCart' = <<>>
    /\ pendingRestaurant' = <<>>
    /\ isOpen' = FALSE
    /\ isSubmitting' = FALSE
    /\ submits' = [ j \in 1..Len(submits) |->
                      [submits[j] EXCEPT !.disturbed = TRUE,
                                         !.orphan = (submits[j].phase # "done")] ]
    /\ g_remount' = [g_remount EXCEPT !.phase = "unmounted",
                                      !.memCart = cart,
                                      !.memRestaurant = restaurant,
                                      !.settled = CartSettled]
    /\ UNCHANGED << lsCart, lsRestaurant, g_adds, g_requests >>

\* The provider mounting with its save effects run before its load effect.
MountCart_SaveFirst ==
    /\ ~cartMounted
    /\ cartMounted' = TRUE
    /\ pendingCart' = <<>>
    /\ pendingRestaurant' = <<>>
    /\ lsCart' = SavedCart(cart)
    /\ lsRestaurant' = SavedRestaurant(restaurant)
    /\ g_remount' = [g_remount EXCEPT !.phase = "rendered",
                                      !.lsCart = lsCart,
                                      !.lsRestaurant = lsRestaurant,
                                      !.ops = g_cartOps]
    /\ UNCHANGED << cart, restaurant, g_cartOps, g_onlyAdds, g_adds, isOpen,
                    isSubmitting, submits, g_requests >>

\* The provider mounts: the first render has cart [] and restaurant null;
\* then the effects run in their order: the load effect reads both keys and
\* sets what it could parse, the two save effects, seeing [] and null,
\* remove both keys.
MountCart ==
    /\ ~cartMounted
    /\ cartMounted' = TRUE
    /\ pendingCart' = IF lsCart # Removed
                      THEN << JSONparseCart(lsCart) >> ELSE <<>>
    /\ pendingRestaurant' = IF lsRestaurant # Removed
                            THEN << JSONparseRestaurant(lsRestaurant) >> ELSE <<>>
    /\ lsCart' = SavedCart(cart)
    /\ lsRestaurant' = SavedRestaurant(restaurant)
    /\ g_remount' = [g_remount EXCEPT
                        !.phase = IF lsCart # Removed \/ lsRestaurant # Removed
                                  THEN "loaded" ELSE "rendered",
                        !.lsCart = lsCart,
                        !.lsRestaurant = lsRestaurant,
                        !.ops = g_cartOps]
    /\ UNCHANGED << cart, restaurant, g_cartOps, g_onlyAdds, g_adds, isOpen,
                    isSubmitting, submits, g_requests >>

\* setIsOpen(open), called by the cart UI.
setIsOpen ==
    /\ cartMounted
    /\ isOpen' = ~isOpen
    /\ UNCHANGED << cart, restaurant, pendingCart, pendingRestaurant, lsCart,
                    lsRestaurant, g_cartOps, g_onlyAdds, g_adds, cartMounted,
                    isSubmitting, submits, g_requests, g_remount >>

\* isValidUUID(id).  R1 stands for a restaurant whose id is a UUID, R2 for
\* one whose id is not (a cart synced from voice); the restaurants table
\* holds R2 under the id R2-uuid.
isValidUUID(id) == id \in {"R1", "R2-uuid"}

\* The id the lookup by name finds for the restaurant bound as r.
ResolvedId(r) == IF r = "R2" THEN "R2-uuid" ELSE r

\* submitOrder's three checks before setIsSubmitting(true), without the
\* check of the user
FailsFast_NoAuthCheck(user) == cart = <<>> \/ restaurant = NoRestaurant

\* submitOrder's three checks before setIsSubmitting(true); `user` is
\* whether useAuth() gave a user to the render the function was created in.
FailsFast(user) == ~user \/ cart = <<>> \/ restaurant = NoRestaurant

\* submitOrder(deliveryInfo) up to its first await: the checks, then
\* setIsSubmitting(true) and either the lookup of the restaurant's id or the
\* POST of the order built from the cart of this render.
submitOrder(user) ==
    LET call == [ phase |-> "done", result |-> "false", refused |-> TRUE,
                  user |-> user, cart0 |-> cart, restaurant0 |-> restaurant,
                  rid |-> restaurant, settled |-> CartSettled,
                  disturbed |-> FALSE, orphan |-> FALSE ]
    IN  /\ cartMounted
        /\ Len(submits) < MaxSubmits
        /\ g_cartOps < MaxCartOps
        /\ g_cartOps' = g_cartOps + 1
        /\ g_onlyAdds' = FALSE
        /\ IF FailsFast(user)
           THEN /\ submits' = Append(submits, call)
                /\ UNCHANGED << isSubmitting, g_requests >>
           ELSE /\ isSubmitting' = TRUE
                /\ g_requests' = g_requests + 1
                /\ submits' = Append(submits,
                       [call EXCEPT !.phase = IF isValidUUID(restaurant)
                                              THEN "posting" ELSE "lookup",
                                    !.result = "pending",
                                    !.refused = FALSE])
        /\ UNCHANGED << cart, restaurant, pendingCart, pendingRestaurant,
                        lsCart, lsRestaurant, g_adds, cartMounted, isOpen,
                        g_remount >>

SubmitOrderCall == \E user \in BOOLEAN : submitOrder(user)

\* The catch block with the cart cleared in it.
submitCatch_ClearsCart ==
    /\ pendingCart' = << <<>> >>
    /\ pendingRestaurant' = << NoRestaurant >>
    /\ UNCHANGED isOpen

\* The catch block of submitOrder: a toast, return false.
submitCatch == UNCHANGED << pendingCart, pendingRestaurant, isOpen >>

\* submitOrder i returns false from its catch block; finally
\* setIsSubmitting(false).  A provider that has unmounted sets no state.
submitFails(i) ==
    /\ submits' = [submits EXCEPT ![i].phase = "done", ![i].result = "false"]
    /\ IF submits[i].orphan
       THEN UNCHANGED << pendingCart, pendingRestaurant, isOpen, isSubmitting >>
       ELSE /\ submitCatch
            /\ isSubmitting' = FALSE
    /\ UNCHANGED g_requests

\* The lookup of the restaurant's id answers: with a row, and the id is put
\* into the restaurant state and the POST is sent, or with none, and
\* submitOrder throws into its catch block.
SubmitLookupAnswers ==
    \E i \in 1..Len(submits), found \in BOOLEAN :
        /\ submits[i].phase = "lookup"
        /\ IF found
           THEN /\ submits' = [Disturbed(i) EXCEPT
                                  ![i].phase = "posting",
                                  ![i].rid = ResolvedId(submits[i].restaurant0)]
                /\ pendingRestaurant' =
                       IF submits[i].orphan THEN pendingRestaurant
                       ELSE << ResolvedId(submits[i].restaurant0) >>
                /\ g_requests' = g_requests + 1
                /\ UNCHANGED << pendingCart, isOpen, isSubmitting >>
           ELSE submitFails(i)
        /\ UNCHANGED << cart, restaurant, lsCart, lsRestaurant, g_cartOps,
                        g_onlyAdds, g_adds, cartMounted, g_remount >>

\* What POST /api/orders can come to: a 2xx answer with the created order,
\* a 2xx answer whose body is not JSON, another status, a rejected fetch.
PostOutcomes == {"created", "unreadable", "non2xx", "rejected"}

\* The POST of submitOrder i comes to an end.
SubmitPostAnswers ==
    \E i \in 1..Len(submits), outcome \in PostOutcomes :
        /\ submits[i].phase = "posting"
        /\ IF outcome = "created"
           THEN /\ submits' = [Disturbed(i) EXCEPT ![i].phase = "done",
                                                   ![i].result = "data"]
                /\ IF submits[i].orphan
                   THEN UNCHANGED << pendingCart, pendingRestaurant, isOpen,
                                     isSubmitting >>
                   ELSE \* clearCart(); setIsOpen(false); finally
                        /\ pendingCart' = << <<>> >>
                        /\ pendingRestaurant' = << NoRestaurant >>
                        /\ isOpen' = FALSE
                        /\ isSubmitting' = FALSE
                /\ UNCHANGED g_requests
           ELSE submitFails(i)
        /\ UNCHANGED << cart, restaurant, lsCart, lsRestaurant, g_cartOps,
                        g_onlyAdds, g_adds, cartMounted, g_remount >>

(***************************************************************************)
(*                      Claims about the cart store                        *)
(***************************************************************************)

\* C9: after any sequence of addToCart calls, every entry of the cart was
\* added for the restaurant the cart is bound to (accepting a switch to
\* another restaurant discards the entries there were).
C9_SingleRestaurant ==
    (g_onlyAdds /\ CartSettled) =>
        \A i \in 1..Len(cart) : cart[i].addedFor = restaurant

\* The requested quantities of the addToCart calls so far, summed.
RECURSIVE SumRequested(_)
SumRequested(adds) ==
    IF adds = <<>> THEN 0 ELSE Head(adds).q + SumRequested(Tail(adds))

\* Every call so far was an addToCart of one item for one restaurant.
SameItemAdds ==
    /\ g_onlyAdds
    /\ g_adds # <<>>
    /\ \A i \in 1..Len(g_adds) :
           g_adds[i].id = g_adds[1].id /\ g_adds[i].r = g_adds[1].r

\* C10: after addToCart calls with one item id and one restaurant, however
\* close together, the cart holds one entry for the id, and its quantity is
\* the sum of the requested quantities (1 for a call that names none).
C10_QuantitiesSum ==
    (SameItemAdds /\ CartSettled) =>
        /\ Len(cart) = 1
        /\ cart[1].id = g_adds[1].id
        /\ cart[1].quantity = SumRequested(g_adds)

\* C12: a submitOrder call made while the user is not signed in, the cart is
\* empty or no restaurant is bound sends no request, returns false and
\* leaves the cart and the binding as they are.
C12_FailFastSendsNothing ==
    [][ (Len(submits') = Len(submits) + 1
            /\ (~submits'[Len(submits')].user \/ cart = <<>>
                    \/ restaurant = NoRestaurant))
        => /\ g_requests' = g_requests
           /\ submits'[Len(submits')].phase = "done"
           /\ submits'[Len(submits')].result = "false"
           /\ UNCHANGED << cart, restaurant, pendingCart, pendingRestaurant,
                           lsCart, lsRestaurant >> ]_vars

\* A signed-out user's submitOrder on a cart with entries was refused and
\* no request has been sent.
C12_Witness ==
    \E i \in 1..Len(submits) :
        /\ submits[i].refused
        /\ ~submits[i].user
        /\ submits[i].cart0 # <<>>
        /\ submits[i].restaurant0 # NoRestaurant
        /\ g_requests = 0

\* submitOrder i was called on a rendered cart, went past its checks and has
\* returned, and no other cart operation ran since it was called; every
\* state it set has been rendered.
SubmitAlone(i) ==
    /\ submits[i].phase = "done"
    /\ submits[i].settled
    /\ ~submits[i].refused
    /\ ~submits[i].disturbed
    /\ ~submits[i].orphan
    /\ CartSettled

\* C11 as stated: after a created order the cart is empty and unbound, and
\* after a failure the entries and the binding are those of before the call.
C11_Original ==
    \A i \in 1..Len(submits) :
        SubmitAlone(i) =>
            IF submits[i].result = "data"
            THEN cart = <<>> /\ restaurant = NoRestaurant
            ELSE cart = submits[i].cart0 /\ restaurant = submits[i].restaurant0

\* After a failure the entries are those of before the call, and the binding
\* is too but for its id, which is the one the lookup found if there was one.
C11_CartAfterSubmit ==
    \A i \in 1..Len(submits) :
        SubmitAlone(i) =>
            IF submits[i].result = "data"
            THEN cart = <<>> /\ restaurant = NoRestaurant
            ELSE cart = submits[i].cart0 /\ restaurant = submits[i].rid

\* The step in which submitOrder i returns.
SubmitReturns(i) ==
    /\ i <= Len(submits)
    /\ submits[i].phase # "done"
    /\ submits'[i].phase = "done"
    /\ ~submits[i].orphan

\* C11: a created order empties the cart, clears the binding, closes the cart
\* UI and is returned; every failure returns false and leaves the entries and
\* the binding (its id apart, once looked up); isSubmitting is false after
\* either.
C11_SubmitOutcome ==
    /\ [] C11_CartAfterSubmit
    /\ [][ \A i \in 1..MaxSubmits :
             SubmitReturns(i) =>
                /\ isSubmitting' = FALSE
                /\ submits'[i].result \in {"data", "false"}
                /\ submits'[i].result = "data" =>
                       /\ isOpen' = FALSE
                       /\ pendingCart' = << <<>> >>
                       /\ pendingRestaurant' = << NoRestaurant >>
                /\ submits'[i].result = "false" =>
                       UNCHANGED << pendingCart, pendingRestaurant, isOpen >> ]_vars

\* The lookup found the restaurant's id and the POST then failed: the call
\* returned false with the entries kept and the binding's id replaced.
C11_Witness ==
    \E i \in 1..Len(submits) :
        /\ SubmitAlone(i)
        /\ submits[i].result = "false"
        /\ submits[i].rid # submits[i].restaurant0
        /\ cart = submits[i].cart0
        /\ restaurant = submits[i].rid

\* Storage mirrors memory once every state set has been rendered.
C18_StorageMirrorsMemory ==
    (cartMounted /\ CartSettled)
    => /\ lsCart = SavedCart(cart)
       /\ lsRestaurant = SavedRestaurant(restaurant)
       /\ cart = <<>> <=> lsCart = Removed
       /\ restaurant = NoRestaurant <=> lsRestaurant = Removed

\* The provider has mounted and rendered what it loaded, and no operation
\* was called on it since.
MountedAlone ==
    /\ cartMounted
    /\ g_remount.phase = "rendered"
    /\ g_remount.ops = g_cartOps

\* C18: once every mutation has been rendered, storage mirrors memory
\* (freeflow_cart holds the entries and is absent for an empty cart,
\* freeflow_cart_restaurant holds the binding and is absent without one); a
\* provider mounted on a storage starts with the stored entries and binding,
\* which are those the provider before it had when it was settled, and
\* storage holds them again: mounting alone loses no stored cart.
C18_PersistenceRoundTrip ==
    /\ C18_StorageMirrorsMemory
    /\ MountedAlone
       => /\ lsCart = g_remount.lsCart
          /\ lsRestaurant = g_remount.lsRestaurant
          /\ g_remount.lsCart # Removed => cart = JSONparseCart(g_remount.lsCart)
          /\ g_remount.lsRestaurant # Removed
                => restaurant = JSONparseRestaurant(g_remount.lsRestaurant)
          /\ g_remount.settled
                => /\ cart = g_remount.memCart
                   /\ restaurant = g_remount.memRestaurant

\* C18 witness: a provider mounted on the storage of a settled provider that
\* held a cart, and has rendered: it holds that cart, and so does storage.
C18_Witness ==
    /\ MountedAlone
    /\ g_remount.settled
    /\ g_remount.memCart # <<>>
    /\ cart = g_remount.memCart
    /\ restaurant = g_remount.memRestaurant
    /\ lsCart = JSONstringifyCart(cart)
    /\ lsRestaurant = JSONstringifyRestaurant(restaurant)

\* C24: one cart is submitted by at most one POST /api/orders: no two
\* submitOrder calls made for the same cart have their order-creation
\* request in flight together.
C24_OnePostPerCart ==
    \A i, j \in 1..Len(submits) :
        ( /\ i < j
          /\ submits[i].phase = "posting"
          /\ submits[j].phase = "posting" )
        => submits[i].cart0 # submits[j].cart0

(***************************************************************************)
(*                          UI hints derivation                            *)
(***************************************************************************)
\* An optional value: {} when the field is absent (undefined / null), else
\* the set holding the value.
Optional(S) == {{}} \cup { {v} : v \in S }
ValueOf(opt) == CHOOSE v \in opt : TRUE

\* Strings as sequences of characters.
Str_kds == << "k", "d", "s" >>
Str_business == << "b", "u", "s", "i", "n", "e", "s", "s" >>
Str_show_kds == << "s", "h", "o", "w", "_" >> \o Str_kds
Str_kitchen_display ==
    << "k", "i", "t", "c", "h", "e", "n", "_", "d", "i", "s", "p", "l", "a", "y" >>
Str_show_stats == << "s", "h", "o", "w", "_", "s", "t", "a", "t", "s" >>
Str_admin_panel == << "a", "d", "m", "i", "n", "_", "p", "a", "n", "e", "l" >>
Str_find_nearby == << "f", "i", "n", "d", "_", "n", "e", "a", "r", "b", "y" >>

\* The intents tried: none of the keywords, each keyword alone and inside a
\* longer intent, both keywords in either order, the three exact names that
\* hold no keyword, the empty string.
Intents ==
    { << >>, Str_find_nearby, Str_kds, Str_business, Str_show_kds,
      Str_kds \o << "_" >> \o Str_business,
      Str_business \o << "_" >> \o Str_kds,
      << "m", "y", "_" >> \o Str_business \o << "_", "x" >>,
      Str_kitchen_display, Str_show_stats, Str_admin_panel }

\* String.prototype.includes
includes(str, sub) ==
    \E i \in 1..(Len(str) - Len(sub) + 1) :
        SubSeq(str, i, i + Len(sub) - 1) = sub

\* The lists a response carries: empty, or with an element.
Lists == { << >>, << "x" >> }

\* The responses deriveUIHints is called with: none, or an object whose
\* fields are each absent or present.
UIResponses ==
    Optional([ restaurants : Optional(Lists),
               menuItems : Optional(Lists),
               currentRestaurant : Optional({"R1"}),
               businessStats : Optional({"stats"}),
               orders : Optional(Lists),
               intent : Optional(Intents) ])

NoContext == {}

\* deriveUIHints with rules 1 and 2 swapped.
deriveUIHints_MenuFirst(response) ==
    IF response = {}
    THEN [panel |-> "none", context |-> NoContext]
    ELSE LET r == ValueOf(response)
             intent == IF r.intent # {} THEN ValueOf(r.intent) ELSE << >>
         IN  IF r.menuItems # {} /\ Len(ValueOf(r.menuItems)) > 0
             THEN [panel |-> "menu",
                   context |-> {[restaurantId |-> r.currentRestaurant]}]
             ELSE IF r.restaurants # {} /\ Len(ValueOf(r.restaurants)) > 0
             THEN [panel |-> "restaurants", context |-> NoContext]
             ELSE IF r.businessStats # {} \/ r.orders # {}
             THEN [panel |-> "business", context |-> NoContext]
             ELSE IF \/ includes(intent, Str_kds)
                     \/ intent = Str_show_kds
                     \/ intent = Str_kitchen_display
             THEN [panel |-> "kds", context |-> NoContext]
             ELSE IF \/ includes(intent, Str_business)
                     \/ intent = Str_show_stats
                     \/ intent = Str_admin_panel
             THEN [panel |-> "business", context |-> NoContext]
             ELSE [panel |-> "none", context |-> NoContext]

\* deriveUIHints(response).  An array, empty or not, and a stats object are
\* truthy; context.restaurantId is response.currentRestaurant?.id, absent
\* when there is no current restaurant.
deriveUIHints(response) ==
    IF response = {}
    THEN [panel |-> "none", context |-> NoContext]
    ELSE LET r == ValueOf(response)
             intent == IF r.intent # {} THEN ValueOf(r.intent) ELSE << >>
         IN  IF r.restaurants # {} /\ Len(ValueOf(r.restaurants)) > 0
             THEN [panel |-> "restaurants", context |-> NoContext]
             ELSE IF r.menuItems # {} /\ Len(ValueOf(r.menuItems)) > 0
             THEN [panel |-> "menu",
                   context |-> {[restaurantId |-> r.currentRestaurant]}]
             ELSE IF r.businessStats # {} \/ r.orders # {}
             THEN [panel |-> "business", context |-> NoContext]
             ELSE IF \/ includes(intent, Str_kds)
                     \/ intent = Str_show_kds
                     \/ intent = Str_kitchen_display
             THEN [panel |-> "kds", context |-> NoContext]
             ELSE IF \/ includes(intent, Str_business)
                     \/ intent = Str_show_stats
                     \/ intent = Str_admin_panel
             THEN [panel |-> "business", context |-> NoContext]
             ELSE [panel |-> "none", context |-> NoContext]

HintsInit ==
    /\ uiResponse = {}
    /\ uiHints = deriveUIHints({})

\* A caller derives the hints of a response.
DeriveUIHintsCall ==
    \E response \in UIResponses :
        /\ uiResponse' = response
        /\ uiHints' = deriveUIHints(response)

(***************************************************************************)
(*                   Claims about the UI hints derivation                  *)
(***************************************************************************)
\* The first three rules and the shape of the result, as C21 states them.
\* `byIntent` is the panel the intent rules give.
HintsByRules(byIntent) ==
    IF uiResponse = {}
    THEN uiHints.panel = "none"
    ELSE LET r == ValueOf(uiResponse)
             hasRestaurants == r.restaurants # {} /\ r.restaurants # {<< >>}
             hasMenu == r.menuItems # {} /\ r.menuItems # {<< >>}
             hasBusiness == r.businessStats # {} \/ r.orders # {}
         IN  /\ hasRestaurants => uiHints.panel = "restaurants"
             /\ (~hasRestaurants /\ hasMenu)
                  => /\ uiHints.panel = "menu"
                     /\ \E c \in uiHints.context :
                            c.restaurantId = r.currentRestaurant
             /\ (~hasRestaurants /\ ~hasMenu /\ hasBusiness)
                  => uiHints.panel = "business"
             /\ (~hasRestaurants /\ ~hasMenu /\ ~hasBusiness)
                  => uiHints.panel = byIntent
             /\ uiHints.panel # "menu" => uiHints.context = NoContext

\* The intent of the response, the empty string when it has none.
IntentOf == IF uiResponse = {} \/ ValueOf(uiResponse).intent = {}
            THEN << >> ELSE ValueOf(ValueOf(uiResponse).intent)

\* C21 as stated: after the data rules, an intent containing 'kds' gives kds,
\* one containing 'business' gives business, every other input gives none.
C21_Original ==
    HintsByRules(IF includes(IntentOf, Str_kds) THEN "kds"
                 ELSE IF includes(IntentOf, Str_business) THEN "business"
                 ELSE "none")

\* C21: deriveUIHints returns the panel of the first matching rule:
\* restaurants non-empty, restaurants; menuItems non-empty, menu with the
\* current restaurant's id as context; businessStats or orders present,
\* business; an intent containing 'kds' or equal to 'kitchen_display', kds;
\* an intent containing 'business' or equal to 'show_stats' or
\* 'admin_panel', business; otherwise none.  The result is fixed by the
\* argument.
C21_FirstMatchingRule ==
    HintsByRules(IF includes(IntentOf, Str_kds) \/ IntentOf = Str_kitchen_display
                 THEN "kds"
                 ELSE IF \/ includes(IntentOf, Str_business)
                         \/ IntentOf \in {Str_show_stats, Str_admin_panel}
                 THEN "business"
                 ELSE "none")

\* C21 witness: a response with nothing but the intent 'show_stats' has given
\* the business panel.
C21_Witness ==
    /\ uiResponse # {}
    /\ ValueOf(uiResponse).restaurants = {}
    /\ ValueOf(uiResponse).menuItems = {<< >>}
    /\ ValueOf(uiResponse).businessStats = {}
    /\ ValueOf(uiResponse).orders = {}
    /\ IntentOf = Str_show_stats
    /\ uiHints.panel = "business"

(***************************************************************************)
(*                             Specifications                              *)
(***************************************************************************)
BrainIdle == UNCHANGED brainVars
KdsIdle == UNCHANGED kdsVars
TtsIdle == UNCHANGED ttsVars
CartIdle == UNCHANGED cartVars
HintsIdle == UNCHANGED hintsVars
HomeIdle == UNCHANGED homeVars

BrainStep ==
    \/ SendMessageCall /\ KdsIdle /\ TtsIdle /\ CartIdle /\ HintsIdle /\ HomeIdle
    \/ BrainAnswers /\ KdsIdle /\ TtsIdle /\ CartIdle /\ HintsIdle /\ HomeIdle
    \/ BrainFails /\ KdsIdle /\ TtsIdle /\ CartIdle /\ HintsIdle /\ HomeIdle
    \/ ClearHistoryCall /\ KdsIdle /\ TtsIdle /\ CartIdle /\ HintsIdle /\ HomeIdle
    \/ startNewConversation /\ KdsIdle /\ TtsIdle /\ CartIdle /\ HintsIdle /\ HomeIdle

KdsStep ==
    \/ Mount /\ BrainIdle /\ TtsIdle /\ CartIdle /\ HintsIdle /\ HomeIdle
    \/ Unmount /\ BrainIdle /\ TtsIdle /\ CartIdle /\ HintsIdle /\ HomeIdle
    \/ Tick /\ BrainIdle /\ TtsIdle /\ CartIdle /\ HintsIdle /\ HomeIdle
    \/ Focus /\ BrainIdle /\ TtsIdle /\ CartIdle /\ HintsIdle /\ HomeIdle
    \/ Blur /\ BrainIdle /\ TtsIdle /\ CartIdle /\ HintsIdle /\ HomeIdle
    \/ VisibilityVisible /\ BrainIdle /\ TtsIdle /\ CartIdle /\ HintsIdle /\ HomeIdle
    \/ VisibilityHidden /\ BrainIdle /\ TtsIdle /\ CartIdle /\ HintsIdle /\ HomeIdle
    \/ refresh /\ BrainIdle /\ TtsIdle /\ CartIdle /\ HintsIdle /\ HomeIdle
    \/ FetchServed /\ BrainIdle /\ TtsIdle /\ CartIdle /\ HintsIdle /\ HomeIdle
    \/ FetchCompletes /\ BrainIdle /\ TtsIdle /\ CartIdle /\ HintsIdle /\ HomeIdle
    \/ FetchFails /\ BrainIdle /\ TtsIdle /\ CartIdle /\ HintsIdle /\ HomeIdle
    \/ DispatchPatch /\ BrainIdle /\ TtsIdle /\ CartIdle /\ HintsIdle /\ HomeIdle
    \/ DispatchToggleItem /\ BrainIdle /\ TtsIdle /\ CartIdle /\ HintsIdle /\ HomeIdle
    \/ DispatchRecall /\ BrainIdle /\ TtsIdle /\ CartIdle /\ HintsIdle /\ HomeIdle
    \/ PatchServed /\ BrainIdle /\ TtsIdle /\ CartIdle /\ HintsIdle /\ HomeIdle
    \/ PatchReturns /\ BrainIdle /\ TtsIdle /\ CartIdle /\ HintsIdle /\ HomeIdle
    \/ PatchThrows /\ BrainIdle /\ TtsIdle /\ CartIdle /\ HintsIdle /\ HomeIdle

TtsStep ==
    \/ StopCall /\ BrainIdle /\ KdsIdle /\ CartIdle /\ HintsIdle /\ HomeIdle
    \/ startAsyncRequest /\ BrainIdle /\ KdsIdle /\ CartIdle /\ HintsIdle /\ HomeIdle
    \/ RegisterAudioCall /\ BrainIdle /\ KdsIdle /\ CartIdle /\ HintsIdle /\ HomeIdle
    \/ AudioEnded /\ BrainIdle /\ KdsIdle /\ CartIdle /\ HintsIdle /\ HomeIdle
    \/ speak /\ BrainIdle /\ KdsIdle /\ CartIdle /\ HintsIdle /\ HomeIdle
    \/ PlayChunkedCall /\ BrainIdle /\ KdsIdle /\ CartIdle /\ HintsIdle /\ HomeIdle
    \/ UtteranceFinishes /\ BrainIdle /\ KdsIdle /\ CartIdle /\ HintsIdle /\ HomeIdle
    \/ CancelEvent /\ BrainIdle /\ KdsIdle /\ CartIdle /\ HintsIdle /\ HomeIdle
    \/ TimerEvent /\ BrainIdle /\ KdsIdle /\ CartIdle /\ HintsIdle /\ HomeIdle

\* The manager driven by playChunked calls alone, one of them overlapping.
TtsOverlapStep ==
    \/ PlayChunkedCall /\ BrainIdle /\ KdsIdle /\ CartIdle /\ HintsIdle /\ HomeIdle
    \/ PlayChunkedWhileActive /\ BrainIdle /\ KdsIdle /\ CartIdle /\ HintsIdle /\ HomeIdle
    \/ UtteranceFinishes /\ BrainIdle /\ KdsIdle /\ CartIdle /\ HintsIdle /\ HomeIdle
    \/ CancelEvent /\ BrainIdle /\ KdsIdle /\ CartIdle /\ HintsIdle /\ HomeIdle
    \/ TimerEvent /\ BrainIdle /\ KdsIdle /\ CartIdle /\ HintsIdle /\ HomeIdle

CartStep ==
    \/ AddToCartCall /\ BrainIdle /\ KdsIdle /\ TtsIdle /\ HintsIdle /\ HomeIdle
    \/ RemoveFromCartCall /\ BrainIdle /\ KdsIdle /\ TtsIdle /\ HintsIdle /\ HomeIdle
    \/ UpdateQuantityCall /\ BrainIdle /\ KdsIdle /\ TtsIdle /\ HintsIdle /\ HomeIdle
    \/ clearCart /\ BrainIdle /\ KdsIdle /\ TtsIdle /\ HintsIdle /\ HomeIdle
    \/ Render /\ BrainIdle /\ KdsIdle /\ TtsIdle /\ HintsIdle /\ HomeIdle
    \/ setIsOpen /\ BrainIdle /\ KdsIdle /\ TtsIdle /\ HintsIdle /\ HomeIdle
    \/ SubmitOrderCall /\ BrainIdle /\ KdsIdle /\ TtsIdle /\ HintsIdle /\ HomeIdle
    \/ SubmitLookupAnswers /\ BrainIdle /\ KdsIdle /\ TtsIdle /\ HintsIdle /\ HomeIdle
    \/ SubmitPostAnswers /\ BrainIdle /\ KdsIdle /\ TtsIdle /\ HintsIdle /\ HomeIdle
    \/ UnmountCart /\ BrainIdle /\ KdsIdle /\ TtsIdle /\ HintsIdle /\ HomeIdle
    \/ MountCart /\ BrainIdle /\ KdsIdle /\ TtsIdle /\ HintsIdle /\ HomeIdle

\* Home driven by voice alone: every message is a finalized transcript.
HomeStep ==
    \/ TranscriptFinalized /\ KdsIdle /\ TtsIdle /\ CartIdle /\ HintsIdle
    \/ TranscriptEffectReruns /\ KdsIdle /\ TtsIdle /\ CartIdle /\ HintsIdle
    \/ BrainAnswers /\ KdsIdle /\ TtsIdle /\ CartIdle /\ HintsIdle /\ HomeIdle
    \/ BrainFails /\ KdsIdle /\ TtsIdle /\ CartIdle /\ HintsIdle /\ HomeIdle
    \/ startNewConversation /\ KdsIdle /\ TtsIdle /\ CartIdle /\ HintsIdle /\ HomeIdle

HintsStep ==
    \/ DeriveUIHintsCall /\ BrainIdle /\ KdsIdle /\ TtsIdle /\ CartIdle /\ HomeIdle

Init ==
    BrainInit /\ KdsInit /\ enabled = TRUE /\ TtsInit /\ CartInit /\ HintsInit
    /\ HomeInit

SpecBrain == Init /\ [][BrainStep]_vars

SpecKDS == Init /\ [][KdsStep]_vars

SpecTTS == Init /\ [][TtsStep]_vars

SpecCart == Init /\ [][CartStep]_vars

\* The hooks with the Polling Engine configured with enabled = false.
InitDisabled ==
    BrainInit /\ KdsInit /\ enabled = FALSE /\ TtsInit /\ CartInit /\ HintsInit
    /\ HomeInit

SpecKDSDisabled == InitDisabled /\ [][KdsStep]_vars

SpecTTSOverlap == Init /\ [][TtsOverlapStep]_vars

SpecHome == Init /\ [][HomeStep]_vars

SpecHints == Init /\ [][HintsStep]_vars

\* The browser delivers the events of the chunks' utterances and fires the
\* timers of the pauses.
SpecTTSFair ==
    /\ SpecTTS
    /\ WF_vars(UtteranceFinishes /\ BrainIdle /\ KdsIdle /\ CartIdle /\ HintsIdle /\ HomeIdle)
    /\ \A k \in 1..MaxPlays :
           /\ WF_vars(CancelDelivered(ChunkUtterance(k)) /\ BrainIdle /\ KdsIdle /\ CartIdle /\ HintsIdle /\ HomeIdle)
           /\ WF_vars(PauseTimerFires(k) /\ BrainIdle /\ KdsIdle /\ CartIdle /\ HintsIdle /\ HomeIdle)

=============================================================================
